---- MODULE Spec2Model ----
(***************************************************************************)
(* Model of the cna2gex pipeline: the script main.py, Dataset construction *)
(* (dataset.py), the validation pass (validate.py) and the result writer   *)
(* (test.py).                                                              *)
(*                                                                         *)
(* The sources do not fit together as they stand: main.py imports a name   *)
(* test.py does not define, so that python main.py ends at main.py:5,      *)
(* before its epoch loop (which would call validate without its            *)
(* summary_writer and read a key validate does not return); and test.py    *)
(* reads a sample_ids attribute dataset.py does not set.  A run enters at  *)
(* one of three places (the value of entry, which pc starts with):         *)
(*   "main"          python main.py;                                       *)
(*   "dataset_init"  the construction of a Dataset, after which validate   *)
(*                   or save_results is called on the object;              *)
(*   "results_val"   save_results of test.py on a dataset object that      *)
(*                   carries sample_ids, with cfg["entrezgene_ids"] set.   *)
(*                                                                         *)
(* Numbers: table cells are small integers; a mean is an exact rational    *)
(* [num, den]; a standard deviation is kept as sqrt(var) (+ eps), with var *)
(* an exact rational, so that equality of two statistics is equality of    *)
(* the real numbers they denote.  NaN is the rational 0/0.                 *)
(* Ratios are multiples of 1/RatioDen with RatioDen a power of two, so     *)
(* that the float products and sums of the source are exact.               *)
(* List positions are 0-based as in the source; the sequence that holds a  *)
(* list keeps element i at position i+1.                                   *)
(***************************************************************************)
EXTENDS Integers, Sequences, FiniteSets, TLC

VARIABLES
    entry,           \* what is run: the script, the class or the function
    cfg,             \* the configuration dictionary (main.py:16)
    files,           \* the tables under cfg["processed_data_dir"]
    pc,              \* position of the single thread of control
    error,           \* the exception that ended the run, or "none"
    io,              \* file reads, file writes and training passes, in order
    output_df,       \* dataset.py:68
    mask_df,         \* dataset.py:70
    cancer_type_df,  \* dataset.py:72
    input_df,        \* dataset.py:77-100
    input_i,         \* number of input data types already read (loop of :79)
    ds,              \* the fields of the Dataset object
    loop,            \* the variables of the epoch loop (main.py:31-37)
    model,           \* the model object handed around by main.py
    checkpoint,      \* the model file written by save_model
    evals,           \* what each evaluation pass compared
    results          \* the files under <split>_results written by test.py

vars == <<entry, cfg, files, pc, error, io, output_df, mask_df,
          cancer_type_df, input_df, input_i, ds, loop, model, checkpoint,
          evals, results>>

---------------------------------------------------------------------------
(* Bounds *)

MaxSamples == 4
RatioBits == 2
MaxEpochs == 4
MaxPatience == 3
MaxSeed == 23

RatioDen == 2 ^ RatioBits

---------------------------------------------------------------------------
(* Python and numpy primitives used by the source *)

Min(a, b) == IF a < b THEN a ELSE b
Max(a, b) == IF a > b THEN a ELSE b

\* int(x) of a float x = num/den, den > 0: truncation toward zero
PyInt(num, den) == IF num >= 0 THEN num \div den ELSE -((-num) \div den)

\* position i of a slice bound, as Python clamps it for a list of length n
PyClamp(i, n) == IF i < 0 THEN Max(i + n, 0) ELSE Min(i, n)

\* s[start:stop]
PySlice(s, start, stop) ==
    LET lo == PyClamp(start, Len(s))
        hi == PyClamp(stop, Len(s))
    IN  IF lo < hi THEN [k \in 1..(hi - lo) |-> s[lo + k]] ELSE <<>>

\* s[start:]
PySliceFrom(s, start) ==
    LET lo == PyClamp(start, Len(s))
    IN  [k \in 1..(Len(s) - lo) |-> s[lo + k]]

\* list(range(n))
PyRange(n) == [k \in 1..n |-> k - 1]

\* np.random.RandomState(seed).shuffle(np.arange(n)) for n = 2..5 and the
\* seeds 0..25, entry seed + 1: the Mersenne Twister seeded with init_genrand,
\* then for i = n-1 down to 1 a swap of positions i and j, j drawn from 0..i
\* by masking 32-bit outputs and rejecting those above i
Shuffled2 ==
    << <<1, 0>>, <<0, 1>>, <<1, 0>>, <<1, 0>>,
       <<1, 0>>, <<0, 1>>, <<1, 0>>, <<0, 1>>,
       <<0, 1>>, <<1, 0>>, <<0, 1>>, <<0, 1>>,
       <<0, 1>>, <<1, 0>>, <<0, 1>>, <<1, 0>>,
       <<0, 1>>, <<0, 1>>, <<1, 0>>, <<0, 1>>,
       <<0, 1>>, <<0, 1>>, <<0, 1>>, <<0, 1>>,
       <<1, 0>>, <<1, 0>> >>
Shuffled3 ==
    << <<2, 1, 0>>, <<0, 2, 1>>, <<2, 1, 0>>, <<1, 0, 2>>,
       <<1, 0, 2>>, <<0, 1, 2>>, <<0, 1, 2>>, <<2, 1, 0>>,
       <<2, 1, 0>>, <<1, 0, 2>>, <<0, 2, 1>>, <<0, 2, 1>>,
       <<0, 1, 2>>, <<1, 0, 2>>, <<1, 2, 0>>, <<2, 1, 0>>,
       <<2, 0, 1>>, <<0, 2, 1>>, <<0, 1, 2>>, <<2, 0, 1>>,
       <<0, 1, 2>>, <<0, 2, 1>>, <<2, 0, 1>>, <<1, 0, 2>>,
       <<0, 1, 2>>, <<1, 2, 0>> >>
Shuffled4 ==
    << <<2, 3, 1, 0>>, <<3, 2, 0, 1>>, <<2, 3, 1, 0>>, <<3, 1, 0, 2>>,
       <<0, 1, 3, 2>>, <<0, 1, 2, 3>>, <<0, 3, 1, 2>>, <<2, 1, 0, 3>>,
       <<2, 1, 0, 3>>, <<1, 3, 0, 2>>, <<2, 0, 3, 1>>, <<2, 3, 0, 1>>,
       <<0, 1, 2, 3>>, <<1, 3, 0, 2>>, <<1, 2, 0, 3>>, <<2, 3, 1, 0>>,
       <<0, 3, 2, 1>>, <<0, 2, 1, 3>>, <<3, 1, 0, 2>>, <<0, 3, 2, 1>>,
       <<0, 1, 2, 3>>, <<3, 2, 0, 1>>, <<3, 2, 0, 1>>, <<1, 0, 2, 3>>,
       <<3, 1, 0, 2>>, <<1, 3, 2, 0>> >>
Shuffled5 ==
    << <<2, 0, 1, 3, 4>>, <<2, 1, 4, 0, 3>>, <<2, 4, 1, 3, 0>>,
       <<3, 4, 1, 0, 2>>, <<0, 3, 1, 4, 2>>, <<4, 0, 1, 2, 3>>,
       <<3, 4, 0, 1, 2>>, <<0, 3, 2, 1, 4>>, <<4, 2, 1, 0, 3>>,
       <<3, 0, 1, 2, 4>>, <<2, 3, 0, 4, 1>>, <<2, 4, 0, 3, 1>>,
       <<0, 1, 2, 4, 3>>, <<1, 3, 4, 0, 2>>, <<1, 2, 4, 0, 3>>,
       <<2, 3, 4, 1, 0>>, <<0, 3, 4, 2, 1>>, <<4, 0, 2, 3, 1>>,
       <<4, 1, 0, 3, 2>>, <<1, 4, 3, 0, 2>>, <<1, 4, 0, 2, 3>>,
       <<4, 2, 0, 3, 1>>, <<1, 2, 3, 0, 4>>, <<4, 1, 0, 2, 3>>,
       <<4, 1, 0, 3, 2>>, <<0, 1, 3, 2, 4>> >>

ShuffledIndices(n, seed) ==
    CASE n = 0 -> <<>>
      [] n = 1 -> <<0>>
      [] n = 2 -> Shuffled2[seed + 1]
      [] n = 3 -> Shuffled3[seed + 1]
      [] n = 4 -> Shuffled4[seed + 1]
      [] n = 5 -> Shuffled5[seed + 1]

\* sklearn.utils.shuffle(items, random_state=seed): items indexed by the
\* shuffled positions, which depend on len(items) and seed alone
Shuffle(items, seed) ==
    LET indices == ShuffledIndices(Len(items), seed)
    IN  [k \in 1..Len(items) |-> items[indices[k] + 1]]

RECURSIVE GCD(_, _)
GCD(a, b) == IF b = 0 THEN a ELSE GCD(b, a % b)

Abs(a) == IF a < 0 THEN -a ELSE a

NaN == [num |-> 0, den |-> 0]

Rat(n, d) ==
    IF d = 0 THEN NaN
    ELSE LET g == GCD(Abs(n), Abs(d))
             s == IF d < 0 THEN -1 ELSE 1
         IN  [num |-> s * (n \div g), den |-> s * (d \div g)]

RatSub(a, b) ==
    IF a = NaN \/ b = NaN THEN NaN
    ELSE Rat(a.num * b.den - b.num * a.den, a.den * b.den)

RECURSIVE SumSeq(_)
SumSeq(s) == IF Len(s) = 0 THEN 0 ELSE s[1] + SumSeq(Tail(s))

\* the column j of a matrix held as a sequence of rows
Column(rows, j) == [k \in 1..Len(rows) |-> rows[k][j]]

\* np.mean over a column; the mean of no rows is NaN
Mean(col) == Rat(SumSeq(col), Len(col))

\* the (population) variance np.std takes the root of
Variance(col) ==
    LET n == Len(col)
        sq == [k \in 1..n |-> col[k] * col[k]]
    IN  Rat(n * SumSeq(sq) - SumSeq(col) * SumSeq(col), n * n)

\* np.std(col) + cfg["normalization_eps"]
StdPlusEps(col) == [sqrt_of |-> Variance(col), plus_eps |-> TRUE]

\* the literals 0.0 and 1.0 written over the one-hot statistics
ZeroMean == Rat(0, 1)
UnitStd == [sqrt_of |-> Rat(1, 1), plus_eps |-> FALSE]

\* (x - mean) / std, kept as numerator over std
Normalize(x, mean, std) == [num |-> RatSub(x, mean), over |-> std]

\* a value that went through no normalization
Raw(x) == [num |-> Rat(x, 1), over |-> UnitStd]

---------------------------------------------------------------------------
(* Tables: pandas data frames read from tab-separated files.  The first    *)
(* column, sample_id, is kept apart from the named value columns.          *)

EmptyTable == [cols |-> <<>>, rows |-> <<>>]

\* a frame with no column at all, sample_id included
Columnless == [cols |-> <<>>, rows |-> <<>>, columnless |-> TRUE]

HasSampleId(t) == "columnless" \notin DOMAIN t

RECURSIVE SetToSortedSeq(_)
SetToSortedSeq(S) ==
    IF S = {} THEN <<>>
    ELSE LET m == CHOOSE x \in S : \A y \in S : x <= y
         IN  <<m>> \o SetToSortedSeq(S \ {m})

Range(s) == {s[k] : k \in 1..Len(s)}

\* t[t["sample_id"].isin(ids)]
SelectRows(t, ids) ==
    LET Keep(r) == r.sample_id \in ids
    IN  [cols |-> t.cols, rows |-> SelectSeq(t.rows, Keep)]

\* t[t["sample_id"].apply(lambda x: x in ids)]: the rows of t whose
\* sample_id is in ids; apply over no row gives an empty object Series,
\* which is no boolean mask, so the brackets select columns, none
FilterRows(t, ids) ==
    IF Len(t.rows) = 0 THEN Columnless ELSE SelectRows(t, ids)

SampleIds(t) == {t.rows[k].sample_id : k \in 1..Len(t.rows)}

RowOf(t, id) == CHOOSE r \in Range(t.rows) : r.sample_id = id

\* pd.merge raises KeyError when a frame has no sample_id column
MergeRaises(left, right) == ~HasSampleId(left) \/ ~HasSampleId(right)

\* pd.merge(left, right, on="sample_id", how="inner"): the rows of left
\* whose sample_id occurs in right, in left's order; a value column named
\* in both tables becomes <name>_x and <name>_y
PdMerge(left, right) ==
    LET both == Range(left.cols) \cap Range(right.cols)
        lcols == [k \in 1..Len(left.cols) |->
                    IF left.cols[k] \in both THEN left.cols[k] \o "_x"
                                             ELSE left.cols[k]]
        rcols == [k \in 1..Len(right.cols) |->
                    IF right.cols[k] \in both THEN right.cols[k] \o "_y"
                                              ELSE right.cols[k]]
        Hit(r) == r.sample_id \in SampleIds(right)
        kept == SelectSeq(left.rows, Hit)
    IN  [cols |-> lcols \o rcols,
         rows |-> [k \in 1..Len(kept) |->
                     [sample_id |-> kept[k].sample_id,
                      vals |-> kept[k].vals
                               \o RowOf(right, kept[k].sample_id).vals]]]

\* str(column).startswith("cancer_type_")
NameTails ==
    {""} \cup {l \o s : l \in {"A", "B", "1", "2"}, s \in {"", "_x", "_y"}}
StartsWithCancerType(column) == \E t \in NameTails : column = "cancer_type_" \o t

---------------------------------------------------------------------------
(* The configuration and the data directory *)

Samples == 1..MaxSamples
SplitKeys == {"train", "val", "test"}
\* cancer type labels: those pandas leaves as strings and those it parses
\* as integers
StringLabels == {"A", "B"}
NumericLabels == {"1", "2"}
CancerTypes == StringLabels \cup NumericLabels
Values == 0..2

\* the dataset classes of dataset.py:138-185 and their input_data_types
DatasetNames ==
    {"UnthresholdedCNAPurity2GEXDataset", "UnthresholdedCNA2GEXDataset",
     "ThresholdedCNAPurity2GEXDataset", "ThresholdedCNA2GEXDataset",
     "RPPA2GEXDataset"}

InputDataTypes(name) ==
    CASE name = "UnthresholdedCNAPurity2GEXDataset" -> <<"unthresholded_cna", "tumor_purity">>
      [] name = "UnthresholdedCNA2GEXDataset" -> <<"unthresholded_cna">>
      [] name = "ThresholdedCNAPurity2GEXDataset" -> <<"thresholded_cna", "tumor_purity">>
      [] name = "ThresholdedCNA2GEXDataset" -> <<"thresholded_cna">>
      [] name = "RPPA2GEXDataset" -> <<"rppa">>

OutputDataType(name) == "gex"

\* the file the mask is read from (dataset.py:70)
MaskDataType == "thresholded_cna"

\* the input data types whose columns line 82 compares with the output's
ColumnCheckedTypes == {"cna", "cna_thresholded"}

GeneFiles == {"gex", "thresholded_cna", "unthresholded_cna"}
FileNames == GeneFiles \cup {"tumor_purity", "rppa", "cancer_type", "cancer_type_one_hot"}

MkTable(cols, ids, val) ==
    LET order == SetToSortedSeq(ids)
    IN  [cols |-> cols,
         rows |-> [k \in 1..Len(order) |->
                     [sample_id |-> order[k],
                      vals |-> [j \in 1..Len(cols) |-> val[order[k]][j]]]]]

\* the two labels cancer_type_one_hot.tsv has a column for
OneHotNames(labels) ==
    IF \E i \in Samples : labels[i] \in StringLabels THEN <<"A", "B">>
    ELSE <<"1", "2">>

\* a data directory: the gene columns of the three gene-indexed files, the
\* sample ids each file holds, the cell values and the cancer type labels
World(geneCols, ids, data, labels) ==
    LET Num(f, cols) == MkTable(cols, ids[f], data[f])
    IN  [f \in FileNames |->
           CASE f \in GeneFiles -> Num(f, geneCols[f])
             [] f = "tumor_purity" -> Num(f, <<"purity">>)
             [] f = "rppa" -> Num(f, <<"protein">>)
             [] f = "cancer_type" ->
                  MkTable(<<"cancer_type">>, ids[f], [i \in Samples |-> <<labels[i]>>])
             [] f = "cancer_type_one_hot" ->
                  MkTable([j \in 1..2 |-> "cancer_type_" \o OneHotNames(labels)[j]],
                          ids[f],
                          [i \in Samples |-> [j \in 1..2 |->
                             IF labels[i] = OneHotNames(labels)[j] THEN 1 ELSE 0]])]

NumericFiles == FileNames \ {"cancer_type", "cancer_type_one_hot"}

DefaultData == [f \in NumericFiles |-> [i \in Samples |-> [j \in 1..2 |->
                  (i * j + (IF f = "gex" THEN 1 ELSE 0)) % 3]]]
DefaultLabels == [i \in Samples |-> IF i < MaxSamples THEN "1" ELSE "2"]
StringDefaultLabels == [i \in Samples |-> IF i < MaxSamples THEN "A" ELSE "B"]
DefaultGeneCols == [f \in GeneFiles |-> <<"g1", "g2">>]
AllSamples == [f \in FileNames |-> Samples]

---------------------------------------------------------------------------
(* Dataset.__init__ and Dataset._process_dataset *)

\* dtype is the dtype of merged_df.values, which X, y, mask and
\* cancer_types are slices of
EmptyDs ==
    [X |-> <<>>, y |-> <<>>, mask |-> <<>>, cancer_types |-> <<>>,
     dtype |-> "number", one_hot_column_indices |-> <<>>,
     input_dimension |-> 0, output_dimension |-> 0, mask_dimension |-> 0,
     entrezgene_ids |-> <<>>, len_dataset |-> 0,
     train_idx |-> <<>>, val_idx |-> <<>>, test_idx |-> <<>>,
     X_train_mean |-> <<>>, X_train_std |-> <<>>,
     y_train_mean |-> <<>>, y_train_std |-> <<>>]

input_data_types == InputDataTypes(cfg.dataset)

HasSplitKeys == SplitKeys \subseteq DOMAIN cfg.split_ratios

\* the sum with the test share left out
SplitSumWithoutTest == cfg.split_ratios["train"] + cfg.split_ratios["val"]

\* split_ratios["train"] + split_ratios["val"] + split_ratios["test"], in
\* units of 1/RatioDen
SplitSum ==
    cfg.split_ratios["train"] + cfg.split_ratios["val"] + cfg.split_ratios["test"]

Fail(msg) ==
    /\ pc' = "failed"
    /\ error' = msg

Read(f) == "read " \o f \o ".tsv"
Write(f) == "write " \o f

\* main.py:5: test.py defines no save_predictions_and_ground_truths, so the
\* import raises before the block under __main__ is entered
RaiseImport ==
    /\ pc = "main"
    /\ Fail("ImportError")
    /\ UNCHANGED <<entry, cfg, files, io, output_df, mask_df, cancer_type_df,
                   input_df, input_i, ds, loop, model, checkpoint, evals,
                   results>>

\* dataset.py:27-28
RaiseSplitKeys ==
    /\ pc = "dataset_init"
    /\ ~HasSplitKeys
    /\ Fail("split_ratios keys")
    /\ UNCHANGED <<entry, cfg, files, io, output_df, mask_df, cancer_type_df,
                   input_df, input_i, ds, loop, model, checkpoint, evals,
                   results>>

\* dataset.py:30-31
RaiseSplitSum ==
    /\ pc = "dataset_init"
    /\ HasSplitKeys
    /\ SplitSum # RatioDen
    /\ Fail("split_ratios sum")
    /\ UNCHANGED <<entry, cfg, files, io, output_df, mask_df, cancer_type_df,
                   input_df, input_i, ds, loop, model, checkpoint, evals,
                   results>>

\* dataset.py:33-37 and 68-77: the three tables every dataset reads
ReadBaseTables ==
    /\ pc = "dataset_init"
    /\ HasSplitKeys
    /\ SplitSum = RatioDen
    /\ output_df' = files[OutputDataType(cfg.dataset)]
    /\ mask_df' = files[MaskDataType]
    /\ cancer_type_df' = files["cancer_type"]
    /\ input_df' = EmptyTable
    /\ input_i' = 0
    /\ io' = io \o <<Read(OutputDataType(cfg.dataset)), Read(MaskDataType),
                     Read("cancer_type")>>
    /\ pc' = "read_inputs"
    /\ UNCHANGED <<entry, cfg, files, error, ds, loop, model, checkpoint,
                   evals, results>>

\* pd.read_csv gives the cancer_type column an integer dtype when the file
\* has a row and every label is a number, an object dtype otherwise
ParsedAsNumbers(t) ==
    /\ Len(t.rows) > 0
    /\ \A k \in 1..Len(t.rows) : t.rows[k].vals[1] \in NumericLabels

\* dataset.py:75: cfg["cancer_type"] is a string, and an integer column
\* equals a string nowhere
cancer_type_sample_ids ==
    IF ParsedAsNumbers(cancer_type_df) THEN {}
    ELSE {r.sample_id : r \in {q \in Range(cancer_type_df.rows) :
                                  q.vals[1] = cfg.cancer_type}}

\* dataset.py:79-93: one pass of the loop over input_data_types
ReadInput ==
    /\ pc = "read_inputs"
    /\ input_i < Len(input_data_types)
    /\ LET current_input_data_type == input_data_types[input_i + 1]
           df == files[current_input_data_type]
           filtered == IF cfg.cancer_type # "all"
                       THEN FilterRows(df, cancer_type_sample_ids)
                       ELSE df
       IN  /\ io' = io \o <<Read(current_input_data_type)>>
           /\ IF /\ current_input_data_type \in ColumnCheckedTypes
                 /\ df.cols # output_df.cols
              THEN /\ Fail("input columns")
                   /\ UNCHANGED <<entry, input_df, input_i>>
              ELSE IF input_i # 0 /\ MergeRaises(input_df, filtered)
              THEN /\ Fail("KeyError")
                   /\ UNCHANGED <<entry, input_df, input_i>>
              ELSE /\ input_df' = IF input_i = 0 THEN filtered
                                  ELSE PdMerge(input_df, filtered)
                   /\ input_i' = input_i + 1
                   /\ UNCHANGED <<entry, pc, error>>
    /\ UNCHANGED <<entry, cfg, files, output_df, mask_df, cancer_type_df, ds,
                   loop, model, checkpoint, evals, results>>

\* dataset.py:95-100
MergeOneHot ==
    /\ pc = "read_inputs"
    /\ input_i = Len(input_data_types)
    /\ cfg.cancer_type = "all"
    /\ input_df' = PdMerge(input_df, files["cancer_type_one_hot"])
    /\ io' = io \o <<Read("cancer_type_one_hot")>>
    /\ pc' = "assert_mask"
    /\ UNCHANGED <<entry, cfg, files, error, output_df, mask_df,
                   cancer_type_df, input_i, ds, loop, model, checkpoint, evals,
                   results>>

AtOutputMaskAssert ==
    \/ pc = "assert_mask"
    \/ /\ pc = "read_inputs"
       /\ input_i = Len(input_data_types)
       /\ cfg.cancer_type # "all"

\* dataset.py:102, the assertion failing
RaiseOutputMaskColumns ==
    /\ AtOutputMaskAssert
    /\ output_df.cols # mask_df.cols
    /\ Fail("output/mask columns")
    /\ UNCHANGED <<entry, cfg, files, io, output_df, mask_df, cancer_type_df,
                   input_df, input_i, ds, loop, model, checkpoint, evals,
                   results>>

\* dataset.py:105 with an input_df that has no sample_id column
RaiseMergeKey ==
    /\ AtOutputMaskAssert
    /\ output_df.cols = mask_df.cols
    /\ MergeRaises(input_df, output_df)
    /\ Fail("KeyError")
    /\ UNCHANGED <<entry, cfg, files, io, output_df, mask_df, cancer_type_df,
                   input_df, input_i, ds, loop, model, checkpoint, evals,
                   results>>

\* the files whose columns merged_df holds
MergedFiles ==
    Range(input_data_types)
    \cup {OutputDataType(cfg.dataset), MaskDataType, "cancer_type"}
    \cup (IF cfg.cancer_type = "all" THEN {"cancer_type_one_hot"} ELSE {})

\* pd.read_csv gives the columns of a file without rows, and a cancer_type
\* column with a label that is no number, the object dtype
ReadAsObject(f) ==
    \/ Len(files[f].rows) = 0
    \/ f = "cancer_type" /\ ~ParsedAsNumbers(files[f])

\* dataset.py:117-120: merged_df.values is an object array as soon as one
\* column of merged_df is
ValuesDtype == IF \E f \in MergedFiles : ReadAsObject(f) THEN "object" ELSE "number"

\* the positions counted from 1, as if sample_id were still a column
OneHotColumnIndicesFromOne(columns) ==
    LET hits == {k \in 1..Len(columns) : StartsWithCancerType(columns[k])}
        order == SetToSortedSeq(hits)
    IN  [k \in 1..Len(order) |-> order[k]]

\* dataset.py:111
OneHotColumnIndices(columns) ==
    LET hits == {k \in 1..Len(columns) : StartsWithCancerType(columns[k])}
        order == SetToSortedSeq(hits)
    IN  [k \in 1..Len(order) |-> order[k] - 1]

\* dataset.py:102-124, the assertion holding
MergeAndSlice ==
    /\ AtOutputMaskAssert
    /\ output_df.cols = mask_df.cols
    /\ ~MergeRaises(input_df, output_df)
    /\ LET m1 == PdMerge(input_df, output_df)
           m2 == PdMerge(m1, mask_df)
           m3 == PdMerge(m2, cancer_type_df)
           rows == Shuffle(m3.rows, cfg.seed)
           i == Len(input_df.cols)
           o == Len(output_df.cols)
           m == Len(mask_df.cols)
           Cut(a, b) == [k \in 1..Len(rows) |-> PySlice(rows[k].vals, a, b)]
       IN  ds' = [ds EXCEPT
                   !.one_hot_column_indices = OneHotColumnIndices(m3.cols),
                   !.input_dimension = i,
                   !.output_dimension = o,
                   !.mask_dimension = m,
                   !.X = Cut(0, i),
                   !.y = Cut(i, i + o),
                   !.mask = Cut(i + o, i + o + m),
                   !.cancer_types = [k \in 1..Len(rows) |->
                                       PySliceFrom(rows[k].vals, i + o + m)],
                   !.dtype = ValuesDtype,
                   !.entrezgene_ids = output_df.cols]
    /\ pc' = "partition"
    /\ UNCHANGED <<entry, cfg, files, error, io, output_df, mask_df,
                   cancer_type_df, input_df, input_i, loop, model, checkpoint,
                   evals, results>>

\* int(len_dataset * split_ratios[key])
SplitSize(n, key) == PyInt(n * cfg.split_ratios[key], RatioDen)

TrainIdx(all_indices, train_size, val_size) == PySlice(all_indices, 0, train_size)
ValIdx(all_indices, train_size, val_size) ==
    PySlice(all_indices, train_size, train_size + val_size)
TestIdx(all_indices, train_size, val_size) ==
    PySliceFrom(all_indices, train_size + val_size)

\* dataset.py:38-50
Partition ==
    /\ pc = "partition"
    /\ LET n == Len(ds.X)
           all_indices == Shuffle(PyRange(n), cfg.seed)
           train_size == SplitSize(n, "train")
           val_size == SplitSize(n, "val")
       IN  ds' = [ds EXCEPT
                   !.len_dataset = n,
                   !.train_idx = TrainIdx(all_indices, train_size, val_size),
                   !.val_idx = ValIdx(all_indices, train_size, val_size),
                   !.test_idx = TestIdx(all_indices, train_size, val_size)]
    /\ pc' = "statistics"
    /\ UNCHANGED <<entry, cfg, files, error, io, output_df, mask_df,
                   cancer_type_df, input_df, input_i, loop, model, checkpoint,
                   evals, results>>

\* matrix[idx, :]
TakeRows(matrix, idx) == [k \in 1..Len(idx) |-> matrix[idx[k] + 1]]

\* every row of the matrix, whatever its split
StatisticsRowsOfAll(matrix, train_idx) == matrix

\* dataset.py:52-53: the rows the statistics are computed from
StatisticsRows(matrix, train_idx) == TakeRows(matrix, train_idx)

\* dataset.py:55-58
XTrainMean(X_train, dim, one_hot) ==
    [j \in 1..dim |-> IF (j - 1) \in Range(one_hot) THEN ZeroMean
                      ELSE Mean(Column(X_train, j))]
XTrainStd(X_train, dim, one_hot) ==
    [j \in 1..dim |-> IF (j - 1) \in Range(one_hot) THEN UnitStd
                      ELSE StdPlusEps(Column(X_train, j))]

\* dataset.py:62-63
YTrainMean(y_train, dim) == [j \in 1..dim |-> Mean(Column(y_train, j))]
YTrainStd(y_train, dim) == [j \in 1..dim |-> StdPlusEps(Column(y_train, j))]

\* dataset.py:52-65 for matrices of numbers
ComputeStatistics ==
    /\ pc = "statistics"
    /\ ds.dtype = "number"
    /\ LET X_train == StatisticsRows(ds.X, ds.train_idx)
           y_train == StatisticsRows(ds.y, ds.train_idx)
       IN  ds' = [ds EXCEPT
                   !.X_train_mean = XTrainMean(X_train, ds.input_dimension,
                                               ds.one_hot_column_indices),
                   !.X_train_std = XTrainStd(X_train, ds.input_dimension,
                                             ds.one_hot_column_indices),
                   !.y_train_mean = YTrainMean(y_train, ds.output_dimension),
                   !.y_train_std = YTrainStd(y_train, ds.output_dimension)]
    /\ pc' = "dataset"
    /\ UNCHANGED <<entry, cfg, files, error, io, output_df, mask_df,
                   cancer_type_df, input_df, input_i, loop, model, checkpoint,
                   evals, results>>

\* dataset.py:55-56 for object matrices: np.mean over no row divides the
\* object 0 by 0, and np.std over some rows asks a Python float for sqrt
RaiseStatistics ==
    /\ pc = "statistics"
    /\ ds.dtype = "object"
    /\ Fail(IF Len(ds.train_idx) = 0 THEN "ZeroDivisionError" ELSE "TypeError")
    /\ UNCHANGED <<entry, cfg, files, io, output_df, mask_df, cancer_type_df,
                   input_df, input_i, ds, loop, model, checkpoint, evals,
                   results>>

---------------------------------------------------------------------------
(* The validation pass of validate.py, called on a Dataset *)

\* np.inf: above every loss
Infinity == 8

\* validate.py:37-39: main_loss_sum / main_loss_count over finite numbers
\* is any float; the losses are kept by their order alone, one for each
\* epoch number validate may be called with
LossValues == (Infinity - MaxEpochs)..(Infinity - 1)

\* float("nan"): a loss that is below no number
NaNLoss == 9

\* the rows a data loader yields for a split, as positions in the dataset
SplitIdx(split) ==
    CASE split = "train" -> ds.train_idx
      [] split = "val" -> ds.val_idx
      [] split = "test" -> ds.test_idx

\* validate.py:22-23: the input handed to the model for one row
ValidateInput(row) ==
    [j \in 1..Len(row) |->
       IF cfg.normalize_input
       THEN Normalize(Rat(row[j], 1), ds.X_train_mean[j], ds.X_train_std[j])
       ELSE Raw(row[j])]

\* model(X): the output of the network with the given parameters, opaque
Forward(params, X) == [params |-> params, x |-> X]

\* yhat * std + mean, per output column
Denormalize(yhat, std, mean) == [yhat |-> yhat, times |-> std, plus |-> mean]

\* an output that was not rescaled
Undenormalized(yhat) ==
    [yhat |-> yhat,
     times |-> [j \in 1..ds.output_dimension |-> UnitStd],
     plus |-> [j \in 1..ds.output_dimension |-> ZeroMean]]

\* validate.py:25-30: what the loss function is given as yhat for one row
ValidateOutput(yhat) ==
    IF cfg.normalize_output
    THEN Denormalize(yhat, ds.y_train_std, ds.y_train_mean)
    ELSE Undenormalized(yhat)

ValidatePrediction(params, row) == ValidateOutput(Forward(params, ValidateInput(row)))

\* main_loss_count of validate.py:32
ElementCount(split) == Len(SplitIdx(split)) * ds.output_dimension

\* a NaN among the statistics of an empty train split
HasNaN(mean, std) ==
    \E j \in 1..Len(mean) : mean[j] = NaN \/ std[j].sqrt_of = NaN

\* validate.py:22-30: a NaN statistic that is applied makes every input or
\* every output NaN, whatever the network, and the loss with it
LossIsNaN ==
    \/ cfg.normalize_input /\ HasNaN(ds.X_train_mean, ds.X_train_std)
    \/ cfg.normalize_output /\ HasNaN(ds.y_train_mean, ds.y_train_std)

\* validate.py:11-44, called with all its eight arguments: the loss is
\* main_loss_sum / main_loss_count of the predictions against y, it is
\* handed to the summary writer and returned under the key
\* cfg["loss_function"]
Validate ==
    /\ pc = "dataset"
    /\ ElementCount("val") # 0
    /\ \E loss \in (IF LossIsNaN THEN {NaNLoss} ELSE LossValues) :
          evals' = [evals EXCEPT
                      !.val =
                         [k \in 1..Len(ds.val_idx) |->
                            [sample |-> ds.val_idx[k],
                             yhat |-> ValidatePrediction(model.params, ds.X[ds.val_idx[k] + 1]),
                             y |-> ds.y[ds.val_idx[k] + 1]]],
                      !.val_loss_dict = [k \in {cfg.loss_function} |-> loss]]
    /\ io' = io \o <<"add_scalar">>
    /\ pc' = "validated"
    /\ UNCHANGED <<entry, cfg, files, error, output_df, mask_df,
                   cancer_type_df, input_df, input_i, ds, loop, model,
                   checkpoint, results>>

\* validate.py:35: main_loss_sum / main_loss_count with no element counted
RaiseValidateEmpty ==
    /\ pc = "dataset"
    /\ ElementCount("val") = 0
    /\ Fail("ZeroDivisionError")
    /\ UNCHANGED <<entry, cfg, files, io, output_df, mask_df, cancer_type_df,
                   input_df, input_i, ds, loop, model, checkpoint, evals,
                   results>>

\* test.py:45-59 called on a Dataset of dataset.py: the first batch stops
\* at :46 when the loader's batches have no sample_id_indices and at :55
\* otherwise, as the object has no sample_ids; with no batch np.hstack([])
\* raises.  Nothing is written.
RaiseSampleIds ==
    /\ pc = "dataset"
    /\ \E e \in (IF Len(SplitIdx("val")) = 0 THEN {"ValueError"}
                 ELSE {"KeyError", "AttributeError"}) : Fail(e)
    /\ UNCHANGED <<entry, cfg, files, io, output_df, mask_df, cancer_type_df,
                   input_df, input_i, ds, loop, model, checkpoint, evals,
                   results>>

---------------------------------------------------------------------------
(* The objects main.py:25-57 would bind *)

\* no model file: save_model (main.py:42) has not been called
NoCheckpoint == [exists |-> FALSE, params |-> 0]

\* the name model bound to no object: before main.py:25 and after the del
\* of main.py:53
Unbound == [bound |-> FALSE]

---------------------------------------------------------------------------
(* save_results_split and save_results of test.py, called on a dataset     *)
(* object that has sample_ids, with batches that have sample_id_indices    *)
(* and with cfg["entrezgene_ids"] set                                      *)

EmptyResult ==
    [ground_truths |-> EmptyTable, predictions |-> EmptyTable,
     cancer_types |-> EmptyTable, evaluation_metrics |-> <<>>]

\* test.py:50: the model is given the batch's X as the loader yields it,
\* and its output is used as it comes
ResultsPrediction(params, row) ==
    Undenormalized(Forward(params, [j \in 1..Len(row) |-> Raw(row[j])]))

\* the order sorted() gives the gene columns
GeneOrder == <<"g1", "g2", "g3">>
SortedPositions(cols) ==
    LET InCols(g) == g \in Range(cols)
        sorted == SelectSeq(GeneOrder, InCols)
    IN  [k \in 1..Len(sorted) |-> CHOOSE j \in 1..Len(cols) : cols[j] = sorted[k]]

\* test.py:70-72 and 75-77: a frame of one row per sample, its rows sorted
\* by sample_id and its gene columns sorted by name
ResultFrame(cols, sample_ids, val) ==
    LET pos == SortedPositions(cols)
        order == SetToSortedSeq(Range(sample_ids))
        At(id) == CHOOSE k \in 1..Len(sample_ids) : sample_ids[k] = id
    IN  [cols |-> [k \in 1..Len(pos) |-> cols[pos[k]]],
         rows |-> [k \in 1..Len(order) |->
                     [sample_id |-> order[k],
                      vals |-> [j \in 1..Len(pos) |-> val[At(order[k])][pos[j]]]]]]

\* values.ravel() of the rows whose sample_id is in ids (test.py:23-27)
RECURSIVE Ravel(_)
Ravel(rows) == IF Len(rows) = 0 THEN <<>> ELSE rows[1].vals \o Ravel(Tail(rows))

RowsOf(frame, ids) ==
    LET Keep(r) == r.sample_id \in ids
    IN  Ravel(SelectSeq(frame.rows, Keep))

\* test.py:85-86: the sample ids of each cancer type of the split, then
\* those of the group "all"
CancerTypeOrder == <<"1", "2", "A", "B">>

\* a grouping that leaves out the group "all"
GroupsWithoutAll(cancer_types, all_sample_ids) ==
    LET Present(c) == \E r \in Range(cancer_types.rows) : r.vals[1] = c
        labels == SelectSeq(CancerTypeOrder, Present)
        Ids(c) == {r.sample_id : r \in {q \in Range(cancer_types.rows) : q.vals[1] = c}}
    IN  [k \in 1..Len(labels) |-> [cancer_type |-> labels[k], sample_ids |-> Ids(labels[k])]]

GroupsOf(cancer_types, all_sample_ids) ==
    LET Present(c) == \E r \in Range(cancer_types.rows) : r.vals[1] = c
        labels == SelectSeq(CancerTypeOrder, Present)
        Ids(c) == {r.sample_id : r \in {q \in Range(cancer_types.rows) : q.vals[1] = c}}
    IN  [k \in 1..Len(labels) |-> [cancer_type |-> labels[k], sample_ids |-> Ids(labels[k])]]
        \o <<[cancer_type |-> "all", sample_ids |-> Range(all_sample_ids)]>>

\* the number the network puts out in one output column: model(X) is any
\* function of the parameters and the input, here one fixed function
Network(params, X, column) ==
    (params + column + SumSeq([i \in 1..Len(X) |-> X[i].num.num])) % 3

\* the value of one cell of the predictions frame
PredictedValue(cell) == Network(cell.of.yhat.params, cell.of.yhat.x, cell.column)

\* test.py:17: mean_squared_error(y_true, y_pred) of two flat arrays
MeanSquaredError(ground_truths, predictions) ==
    Rat(SumSeq([k \in 1..Len(ground_truths) |->
                  (ground_truths[k] - PredictedValue(predictions[k]))
                  * (ground_truths[k] - PredictedValue(predictions[k]))]),
        Len(ground_truths))

\* test.py:55: the sample ids of the split, in the loader's order
AllSampleIds(split_name) ==
    [k \in 1..Len(SplitIdx(split_name)) |-> ds.sample_ids[SplitIdx(split_name)[k] + 1]]

\* test.py:80-82: cancer_type.tsv, the rows of the split, sorted by sample_id
AllCancerTypes(split_name) ==
    LET read == files["cancer_type"]
        kept == SelectRows(read, Range(AllSampleIds(split_name)))
        order == SetToSortedSeq(SampleIds(kept))
    IN  [cols |-> read.cols,
         rows |-> [k \in 1..Len(order) |-> RowOf(kept, order[k])]]

\* test.py:18: pearsonr raises ValueError for arrays of fewer than two
\* elements; the flat arrays of a group hold one element per sample of the
\* split in the group and output column
PearsonAccepts(group, split_name) ==
    Cardinality(group.sample_ids \cap Range(AllSampleIds(split_name)))
        * ds.output_dimension >= 2

\* test.py:45-57: what the loop over the batches of the split collects
SplitPredictions(split_name) ==
    [k \in 1..Len(SplitIdx(split_name)) |->
       ResultsPrediction(model.params, ds.X[SplitIdx(split_name)[k] + 1])]

SplitEvals(split_name) ==
    [k \in 1..Len(SplitIdx(split_name)) |->
       [sample |-> SplitIdx(split_name)[k],
        yhat |-> SplitPredictions(split_name)[k],
        y |-> ds.y[SplitIdx(split_name)[k] + 1]]]

\* test.py:70-72
AllGroundTruths(split_name) ==
    ResultFrame(cfg.entrezgene_ids, AllSampleIds(split_name),
                [k \in 1..Len(SplitIdx(split_name)) |-> ds.y[SplitIdx(split_name)[k] + 1]])

\* test.py:75-77
AllPredictions(split_name) ==
    ResultFrame(cfg.entrezgene_ids, AllSampleIds(split_name),
                [k \in 1..Len(SplitIdx(split_name)) |->
                   [j \in 1..Len(cfg.entrezgene_ids) |->
                      [of |-> SplitPredictions(split_name)[k], column |-> j]]])

\* test.py:22-31 and 91: the row of the metrics table for one group
EvaluationMetrics(group, all_ground_truths, all_predictions) ==
    [cancer_type |-> group.cancer_type,
     ground_truths |-> RowsOf(all_ground_truths, group.sample_ids),
     predictions |-> RowsOf(all_predictions, group.sample_ids),
     all_mse |-> MeanSquaredError(RowsOf(all_ground_truths, group.sample_ids),
                                  RowsOf(all_predictions, group.sample_ids))]

\* test.py:34-96 for one split
SaveResultsSplit(split_name, next_pc) ==
    /\ pc = "results_" \o split_name
    /\ Len(SplitIdx(split_name)) # 0
    /\ ElementCount(split_name) # 0
    /\ LET groups == GroupsOf(AllCancerTypes(split_name), AllSampleIds(split_name))
           dir == split_name \o "_results/"
       IN  /\ \A k \in 1..Len(groups) : PearsonAccepts(groups[k], split_name)
           /\ evals' = [evals EXCEPT ![split_name \o "_results"] = SplitEvals(split_name)]
           /\ results' = [results EXCEPT ![split_name] =
                 [ground_truths |-> AllGroundTruths(split_name),
                  predictions |-> AllPredictions(split_name),
                  cancer_types |-> AllCancerTypes(split_name),
                  evaluation_metrics |->
                     [k \in 1..Len(groups) |->
                        EvaluationMetrics(groups[k], AllGroundTruths(split_name),
                                          AllPredictions(split_name))]]]
           /\ io' = io \o <<Write(dir \o "ground_truths.tsv"),
                            Write(dir \o "predictions.tsv"),
                            Read("cancer_type"),
                            Write(dir \o "cancer_types.tsv"),
                            Write(dir \o "evaluation_metrics_all.tsv")>>
    /\ pc' = next_pc
    /\ UNCHANGED <<entry, cfg, files, error, output_df, mask_df,
                   cancer_type_df, input_df, input_i, ds, loop, model,
                   checkpoint>>

\* test.py:59-62 for a split with no batch: np.hstack([]) raises, and with
\* no output column the division by total_count does
RaiseResultsEmpty(split_name) ==
    /\ pc = "results_" \o split_name
    /\ \/ Len(SplitIdx(split_name)) = 0
       \/ ElementCount(split_name) = 0
    /\ Fail(IF Len(SplitIdx(split_name)) = 0 THEN "ValueError" ELSE "ZeroDivisionError")
    /\ UNCHANGED <<entry, cfg, files, io, output_df, mask_df, cancer_type_df,
                   input_df, input_i, ds, loop, model, checkpoint, evals,
                   results>>

\* test.py:88-91 for a split with a group whose flat arrays hold fewer
\* than two elements: pearsonr raises after the first three files of the
\* split were written and before the metrics table is
RaiseResultsCorr(split_name) ==
    /\ pc = "results_" \o split_name
    /\ Len(SplitIdx(split_name)) # 0
    /\ ElementCount(split_name) # 0
    /\ LET groups == GroupsOf(AllCancerTypes(split_name), AllSampleIds(split_name))
           dir == split_name \o "_results/"
       IN  /\ \E k \in 1..Len(groups) : ~PearsonAccepts(groups[k], split_name)
           /\ evals' = [evals EXCEPT ![split_name \o "_results"] = SplitEvals(split_name)]
           /\ results' = [results EXCEPT ![split_name] =
                 [ground_truths |-> AllGroundTruths(split_name),
                  predictions |-> AllPredictions(split_name),
                  cancer_types |-> AllCancerTypes(split_name),
                  evaluation_metrics |-> <<>>]]
           /\ io' = io \o <<Write(dir \o "ground_truths.tsv"),
                            Write(dir \o "predictions.tsv"),
                            Read("cancer_type"),
                            Write(dir \o "cancer_types.tsv")>>
    /\ Fail("ValueError")
    /\ UNCHANGED <<entry, cfg, files, output_df, mask_df, cancer_type_df,
                   input_df, input_i, ds, loop, model, checkpoint>>

\* test.py:99-101
SaveResultsVal == SaveResultsSplit("val", "results_test")
SaveResultsTest == SaveResultsSplit("test", "done")
RaiseResultsEmptyVal == RaiseResultsEmpty("val")
RaiseResultsEmptyTest == RaiseResultsEmpty("test")
RaiseResultsCorrVal == RaiseResultsCorr("val")
RaiseResultsCorrTest == RaiseResultsCorr("test")

---------------------------------------------------------------------------
(* Runs *)

Next ==
    \/ RaiseImport
    \/ RaiseSplitKeys
    \/ RaiseSplitSum
    \/ ReadBaseTables
    \/ ReadInput
    \/ MergeOneHot
    \/ RaiseOutputMaskColumns
    \/ RaiseMergeKey
    \/ MergeAndSlice
    \/ Partition
    \/ ComputeStatistics
    \/ RaiseStatistics
    \/ Validate
    \/ RaiseValidateEmpty
    \/ RaiseSampleIds
    \/ SaveResultsVal
    \/ SaveResultsTest
    \/ RaiseResultsEmptyVal
    \/ RaiseResultsEmptyTest
    \/ RaiseResultsCorrVal
    \/ RaiseResultsCorrTest

\* the state a run starts from: the place it enters at, its configuration,
\* its data directory and the dataset and model objects it is handed
InitOf(inputs) ==
    /\ \E i \in inputs :
          /\ entry = i.pc /\ pc = i.pc
          /\ cfg = i.cfg /\ files = i.files /\ ds = i.ds /\ model = i.model
    /\ error = "none"
    /\ io = <<>>
    /\ output_df = EmptyTable
    /\ mask_df = EmptyTable
    /\ cancer_type_df = EmptyTable
    /\ input_df = EmptyTable
    /\ input_i = 0
    /\ loop = [epoch |-> 0, best_val_loss |-> Infinity,
               num_epochs_val_loss_not_decreased |-> 0,
               current_val_loss |-> Infinity, val_losses |-> <<>>]
    /\ checkpoint = NoCheckpoint
    /\ evals = [val |-> <<>>, val_results |-> <<>>, test_results |-> <<>>,
                val_loss_dict |-> <<>>]
    /\ results = [val |-> EmptyResult, test |-> EmptyResult]

MkCfg(ratios, dataset, cancer_type, seed, normalize_input, normalize_output, num_epochs, patience) ==
    [split_ratios |-> ratios, dataset |-> dataset, cancer_type |-> cancer_type,
     seed |-> seed, normalize_input |-> normalize_input,
     normalize_output |-> normalize_output, num_epochs |-> num_epochs,
     early_stopping_patience |-> patience, early_stopping_epoch |-> 0,
     loss_function |-> "mse", entrezgene_ids |-> <<>>]

Ratios(train, val, test) ==
    [k \in SplitKeys |-> CASE k = "train" -> train [] k = "val" -> val [] k = "test" -> test]

Half == RatioDen \div 2
Quarter == RatioDen \div 4

DefaultWorld == World(DefaultGeneCols, AllSamples, DefaultData, DefaultLabels)
\* the same directory with cancer types that are no numbers
StringWorld == World(DefaultGeneCols, AllSamples, DefaultData, StringDefaultLabels)
\* a directory whose files hold the first n samples only
FirstSamples(n) ==
    World(DefaultGeneCols, [f \in FileNames |-> 1..n], DefaultData, DefaultLabels)
\* a directory whose mask file has other columns than the output file
MaskMismatchWorld ==
    World([DefaultGeneCols EXCEPT !["thresholded_cna"] = <<"g2", "g1">>],
          AllSamples, DefaultData, DefaultLabels)
\* a directory whose rppa.tsv has a header and no row
NoRppaWorld ==
    World(DefaultGeneCols, [AllSamples EXCEPT !["rppa"] = {}], DefaultData,
          StringDefaultLabels)

BadRatios == {Ratios(Half, Half, Half), [k \in {"train", "val"} |-> Half]}

DefaultCfg == MkCfg(Ratios(Half, Quarter, Quarter), "RPPA2GEXDataset", "all", 0, TRUE, TRUE, 1, 1)

\* python main.py
MainRun(c, w) ==
    [cfg |-> c, files |-> w, pc |-> "main", ds |-> EmptyDs, model |-> Unbound]

\* Dataset(cfg, ...), then validate or save_results with the object and a
\* model
DatasetRun(c, w) ==
    [cfg |-> c, files |-> w, pc |-> "dataset_init", ds |-> EmptyDs,
     model |-> [params |-> 1]]

\* a dataset object with the attributes test.py reads: one input column,
\* the outputs of the given genes, the statistics of its train rows, and
\* sample_ids
DatasetWithSampleIds(sample_ids, genes, data, idx) ==
    LET n == Len(sample_ids)
        o == Len(genes)
        X == [k \in 1..n |-> <<data["rppa"][sample_ids[k]][1]>>]
        y == [k \in 1..n |-> [j \in 1..o |-> data["gex"][sample_ids[k]][j]]]
    IN  [X |-> X, y |-> y,
         mask |-> [k \in 1..n |-> [j \in 1..o |-> data["thresholded_cna"][sample_ids[k]][j]]],
         cancer_types |-> [k \in 1..n |-> <<>>],
         dtype |-> "number", one_hot_column_indices |-> <<>>,
         input_dimension |-> 1, output_dimension |-> o, mask_dimension |-> o,
         entrezgene_ids |-> genes, len_dataset |-> n,
         train_idx |-> idx.train, val_idx |-> idx.val, test_idx |-> idx.test,
         X_train_mean |-> XTrainMean(StatisticsRows(X, idx.train), 1, <<>>),
         X_train_std |-> XTrainStd(StatisticsRows(X, idx.train), 1, <<>>),
         y_train_mean |-> YTrainMean(StatisticsRows(y, idx.train), o),
         y_train_std |-> YTrainStd(StatisticsRows(y, idx.train), o),
         sample_ids |-> sample_ids]

Idx(train, val, test) == [train |-> train, val |-> val, test |-> test]

\* save_results(cfg, data_loaders, model, loss_function, dataset, logger)
ResultsRun(c, w, d, params) ==
    [cfg |-> [c EXCEPT !.entrezgene_ids = d.entrezgene_ids], files |-> w,
     pc |-> "results_val", ds |-> d, model |-> [params |-> params]]

\* a few runs that between them take every path of the sources
BaseInputs ==
    {MainRun(DefaultCfg, DefaultWorld)}
    \cup
    {DatasetRun([DefaultCfg EXCEPT !.split_ratios = r], w) :
        r \in {Ratios(Half, Quarter, Quarter), Ratios(Half, 0, Half)} \cup BadRatios,
        w \in {DefaultWorld, StringWorld, MaskMismatchWorld}}
    \cup
    {DatasetRun([DefaultCfg EXCEPT !.cancer_type = "A"], NoRppaWorld)}
    \cup
    {ResultsRun(DefaultCfg, StringWorld,
                DatasetWithSampleIds(<<1, 2, 3, 4>>, g, DefaultData, i), 0) :
        g \in {<<"g1">>, <<"g1", "g2">>},
        i \in {Idx(<<0, 1>>, <<2>>, <<3>>), Idx(<<3>>, <<0, 1>>, <<2>>),
               Idx(<<0, 1>>, <<2, 3>>, <<>>), Idx(<<0, 1>>, <<>>, <<2, 3>>)}}

\* the script with every epoch budget and patience
MainInputs ==
    {MainRun([DefaultCfg EXCEPT !.num_epochs = e, !.early_stopping_patience = p],
             DefaultWorld) :
        e \in 0..MaxEpochs, p \in 0..MaxPatience}

\* datasets validated with and without each normalization, with and
\* without train rows
ValidateInputs ==
    {DatasetRun(MkCfg(r, "RPPA2GEXDataset", c, 1, ni, no, 1, 1), DefaultWorld) :
        r \in {Ratios(Half, Quarter, Quarter), Ratios(Half, Half, 0),
               Ratios(0, Half, Half)},
        c \in {"all", "1"}, ni \in BOOLEAN, no \in BOOLEAN}

\* results of dataset objects with and without each normalization
ResultsInputs ==
    {ResultsRun(MkCfg(Ratios(Half, Quarter, Quarter), "RPPA2GEXDataset", "all", 0, ni, no, 1, 1),
                StringWorld,
                DatasetWithSampleIds(s, <<"g1", "g2">>, DefaultData,
                                     Idx(<<0, 1>>, <<2>>, <<3>>)), p) :
        ni \in BOOLEAN, no \in BOOLEAN, s \in {<<1, 2, 3, 4>>, <<3, 1, 4, 2>>},
        p \in 0..1}

Init == InitOf(BaseInputs \cup MainInputs \cup ValidateInputs \cup ResultsInputs)

Spec == Init /\ [][Next]_vars

\* runs that vary split_ratios, the number of samples and the seed
RatioNums == (-1)..(RatioDen + 1)
SplitInputs ==
    {DatasetRun([DefaultCfg EXCEPT !.split_ratios = r, !.seed = seed], FirstSamples(n)) :
        r \in {q \in [SplitKeys -> RatioNums] : q["train"] + q["val"] + q["test"] = RatioDen},
        seed \in 0..MaxSeed, n \in 0..MaxSamples}
    \cup
    {DatasetRun([DefaultCfg EXCEPT !.split_ratios = r], DefaultWorld) :
        r \in [SplitKeys -> RatioNums]
              \cup UNION {[K -> {Half}] : K \in (SUBSET SplitKeys) \ {SplitKeys}}}

InitSplit == InitOf(BaseInputs \cup SplitInputs)

SpecSplit == InitSplit /\ [][Next]_vars

\* runs that vary the dataset class, the cancer type, the labels, the
\* columns of the gene-indexed files and the samples each file holds
GeneColChoices == {<<"g1", "g2">>, <<"g2", "g1">>, <<"g1">>, <<"g1", "g3">>}
IdChoices == {Samples, 1..2, Samples \ (1..2), {}}
LabelChoices == {DefaultLabels, StringDefaultLabels}
AssembleInputs ==
    {DatasetRun([DefaultCfg EXCEPT !.dataset = d, !.cancer_type = c],
                World(cols, AllSamples, DefaultData, l)) :
        d \in DatasetNames, c \in {"all", "A", "1"}, l \in LabelChoices,
        cols \in [GeneFiles -> GeneColChoices]}
    \cup
    {DatasetRun([DefaultCfg EXCEPT !.dataset = d, !.cancer_type = c],
                World(DefaultGeneCols,
                      [f \in FileNames |->
                         CASE f = "gex" -> out
                           [] f = "thresholded_cna" -> msk
                           [] f \in {"cancer_type", "cancer_type_one_hot"} -> lab
                           [] OTHER -> inp],
                      DefaultData, l)) :
        d \in DatasetNames, c \in {"all", "A", "1"}, l \in LabelChoices,
        inp \in IdChoices, out \in IdChoices, msk \in IdChoices,
        lab \in {Samples, 1..2}}

InitAssemble == InitOf(BaseInputs \cup AssembleInputs)

SpecAssemble == InitAssemble /\ [][Next]_vars

\* runs that vary the cell values and the cancer type labels
OneGene == [f \in GeneFiles |-> <<"g1">>]
DataChoices ==
    {[DefaultData EXCEPT ![f] = [i \in Samples |-> [j \in 1..2 |-> v[i]]]] :
        f \in {"rppa", "gex"}, v \in [Samples -> Values]}
StatsSeeds == {0, 1, MaxSeed}
StatsInputs ==
    {DatasetRun([DefaultCfg EXCEPT !.split_ratios = r, !.cancer_type = c, !.seed = seed],
                World(OneGene, AllSamples, w.data, w.labels)) :
        r \in {Ratios(Half, Quarter, Quarter), Ratios(Quarter, Half, Quarter)},
        c \in {"all", "A"}, seed \in StatsSeeds,
        w \in {[data |-> d, labels |-> DefaultLabels] : d \in DataChoices}
              \cup {[data |-> DefaultData, labels |-> l] :
                      l \in [Samples -> NumericLabels] \cup [Samples -> StringLabels]}}

InitStats == InitOf(BaseInputs \cup StatsInputs)

SpecStats == InitStats /\ [][Next]_vars

---------------------------------------------------------------------------
(* Properties *)

\* Dataset.__init__ has returned
DatasetBuilt == pc \in {"dataset", "validated"}
Partitioned == pc = "statistics" \/ DatasetBuilt

ReadsIn(log) == {k \in 1..Len(log) : \E f \in FileNames : log[k] = Read(f)}

\* floor(n * ratio) for a ratio of num/RatioDen
FloorShare(n, num) == (n * num) \div RatioDen

PartitionIsExact ==
    LET n == Len(ds.X)
        train == Range(ds.train_idx)
        val == Range(ds.val_idx)
        test == Range(ds.test_idx)
    IN  /\ train \cap val = {}
        /\ train \cap test = {}
        /\ val \cap test = {}
        /\ train \cup val \cup test = 0..(n - 1)
        /\ Len(ds.train_idx) + Len(ds.val_idx) + Len(ds.test_idx) = n
        /\ Len(ds.train_idx) = FloorShare(n, cfg.split_ratios["train"])
        /\ Len(ds.val_idx) = FloorShare(n, cfg.split_ratios["val"])
        /\ Len(ds.test_idx) = n - Len(ds.train_idx) - Len(ds.val_idx)

\* C1: for every number of samples and every split_ratios with the three
\* keys and values summing to 1.0, train_idx, val_idx and test_idx are
\* pairwise disjoint, together hold each of 0..n-1 once, and have
\* floor(n*train), floor(n*val) and the remaining number of elements.
C1_PartitionExact == Partitioned => PartitionIsExact

\* The same for split_ratios whose three values are also within [0, 1].
PartitionExactForShares ==
    (Partitioned /\ \A k \in SplitKeys : cfg.split_ratios[k] \in 0..RatioDen)
        => PartitionIsExact

BadSplitRatios ==
    \/ ~(SplitKeys \subseteq DOMAIN cfg.split_ratios)
    \/ cfg.split_ratios["train"] + cfg.split_ratios["val"]
         + cfg.split_ratios["test"] # RatioDen

NothingLoaded ==
    /\ ReadsIn(io) = {}
    /\ output_df = EmptyTable /\ mask_df = EmptyTable
    /\ cancer_type_df = EmptyTable /\ input_df = EmptyTable
    /\ ds = EmptyDs

\* C5: a split_ratios that lacks one of the keys train/val/test, or whose
\* values do not sum to 1.0, makes Dataset construction raise before any
\* file is read and before any partition or statistic is computed.
C5_BadSplitRaisesFirst ==
    BadSplitRatios =>
        /\ pc \in {"dataset_init", "failed"}
        /\ NothingLoaded
        /\ pc = "dataset_init" => ENABLED (RaiseSplitKeys \/ RaiseSplitSum)
        /\ pc = "failed" => error \in {"split_ratios keys", "split_ratios sum"}

C5_Witness ==
    /\ pc = "failed"
    /\ error = "split_ratios sum"
    /\ cfg.split_ratios = Ratios(Half, Quarter, Half)
    /\ NothingLoaded

\* the lowest of the losses that are numbers
RECURSIVE MinOf(_)
MinOf(h) ==
    IF Len(h) = 0 THEN Infinity
    ELSE IF h[1] = NaNLoss THEN MinOf(Tail(h))
    ELSE Min(h[1], MinOf(Tail(h)))

\* the best validation loss of the epochs before epoch e
BestBefore(h, e) == MinOf(SubSeq(h, 1, e - 1))

\* the loss of epoch e is a number strictly below the best before it
ImprovesAt(h, e) == h[e] # NaNLoss /\ h[e] < BestBefore(h, e)

\* the number of consecutive epochs, ending with epoch e, whose loss was
\* not strictly lower than the best before them
RECURSIVE StreakAt(_, _)
StreakAt(h, e) ==
    IF e = 0 \/ ImprovesAt(h, e) THEN 0 ELSE 1 + StreakAt(h, e - 1)

EarliestMinEpoch(h) ==
    CHOOSE e \in 1..Len(h) :
        /\ h[e] # NaNLoss
        /\ h[e] = MinOf(h)
        /\ \A d \in 1..(e - 1) : h[d] = NaNLoss \/ h[d] > h[e]

\* python main.py has run to its end
MainEnded == entry = "main" /\ ~ENABLED Next

ExpectedPrediction(params, row) ==
    Denormalize(Forward(params,
                    [j \in 1..Len(row) |->
                       IF cfg.normalize_input
                       THEN Normalize(Rat(row[j], 1), ds.X_train_mean[j], ds.X_train_std[j])
                       ELSE Raw(row[j])]),
                ds.y_train_std, ds.y_train_mean)

OnOriginalScale(pass) ==
    \A k \in 1..Len(pass) :
        pass[k].yhat = ExpectedPrediction(pass[k].yhat.yhat.params, ds.X[pass[k].sample + 1])

\* C4: whenever output normalization is enabled, the validation loss of
\* each epoch and the loss and metrics of the final val and test reports
\* are computed on model outputs denormalized with y_train_std and
\* y_train_mean, for inputs normalized as in training.
C4_MetricsOnOriginalScale ==
    cfg.normalize_output =>
        /\ OnOriginalScale(evals.val)
        /\ OnOriginalScale(evals.val_results)
        /\ OnOriginalScale(evals.test_results)

\* What holds of C4: the validation pass of every epoch compares
\* denormalized outputs.
ValidationOnOriginalScale == cfg.normalize_output => OnOriginalScale(evals.val)

ResultDirs == {"val_results/", "test_results/"}
ResultFiles == {"ground_truths.tsv", "predictions.tsv", "cancer_types.tsv",
                "evaluation_metrics_all.tsv"}
ArtifactWrites ==
    {Write(d \o f) : d \in ResultDirs, f \in ResultFiles} \cup {Write("checkpoint")}

\* C10: every read of a data source file happens before the first training
\* step and before any result artifact is written.
C10_ReadsBeforeTraining ==
    \A k \in ReadsIn(io) :
        \A j \in 1..(k - 1) : io[j] # "train" /\ io[j] \notin ArtifactWrites

CnaFamily == {"thresholded_cna", "unthresholded_cna"}

ColumnsMisaligned ==
    \/ files[OutputDataType(cfg.dataset)].cols # files[MaskDataType].cols
    \/ \E t \in Range(input_data_types) \cap CnaFamily :
          files[t].cols # files[OutputDataType(cfg.dataset)].cols

\* C6: if the output table's columns differ from the mask table's, or a
\* copy-number input source of the dataset class has columns other than
\* the output table's, _process_dataset fails and no Dataset is produced.
C6_MisalignedColumnsFail == ColumnsMisaligned => ~Partitioned

\* What holds of C6: differing output and mask columns fail.
OutputMaskMismatchFails ==
    files[OutputDataType(cfg.dataset)].cols # files[MaskDataType].cols => ~Partitioned

\* the sample ids the inner joins of dataset.py:90-107 leave
CommonSamples ==
    LET OfType(f) ==
            IF cfg.cancer_type = "all" THEN SampleIds(files[f])
            ELSE {i \in SampleIds(files[f]) :
                     \E r \in Range(files["cancer_type"].rows) :
                        r.sample_id = i /\ r.vals[1] = cfg.cancer_type}
        sources == {SampleIds(files[OutputDataType(cfg.dataset)]),
                    SampleIds(files[MaskDataType]), SampleIds(files["cancer_type"])}
                   \cup {OfType(f) : f \in Range(input_data_types)}
                   \cup (IF cfg.cancer_type = "all"
                         THEN {SampleIds(files["cancer_type_one_hot"])} ELSE {})
    IN  {i \in Samples : \A S \in sources : i \in S}

\* C7: when the sources share no sample_id, Dataset construction raises
\* instead of completing with zero-row matrices.
C7_EmptyJoinRaises == CommonSamples = {} => ~DatasetBuilt

\* the matrices that agree with matrix on the rows of train_idx and hold
\* any one value on each other row
Alternatives(matrix, train_idx, dim) ==
    LET others == {k \in 1..Len(matrix) : (k - 1) \notin Range(train_idx)}
    IN  {[k \in 1..Len(matrix) |->
            IF k \in others THEN [j \in 1..dim |-> v[k]] ELSE matrix[k]] :
         v \in [others -> Values]}

StatisticsOfX(X) ==
    <<XTrainMean(StatisticsRows(X, ds.train_idx), ds.input_dimension,
                 ds.one_hot_column_indices),
      XTrainStd(StatisticsRows(X, ds.train_idx), ds.input_dimension,
                ds.one_hot_column_indices)>>
StatisticsOfY(y) ==
    <<YTrainMean(StatisticsRows(y, ds.train_idx), ds.output_dimension),
      YTrainStd(StatisticsRows(y, ds.train_idx), ds.output_dimension)>>

Statistics == <<ds.X_train_mean, ds.X_train_std, ds.y_train_mean, ds.y_train_std>>

TrainRowsOnly ==
    pc = "dataset" =>
        /\ \A X \in Alternatives(ds.X, ds.train_idx, ds.input_dimension) :
              StatisticsOfX(X) = <<ds.X_train_mean, ds.X_train_std>>
        /\ \A y \in Alternatives(ds.y, ds.train_idx, ds.output_dimension) :
              StatisticsOfY(y) = <<ds.y_train_mean, ds.y_train_std>>

StatisticsKept == DatasetBuilt => Statistics' = Statistics

\* C8: X_train_mean, X_train_std, y_train_mean and y_train_std are the
\* same for any two datasets with the same partition that agree on every
\* train row, whatever their val and test rows hold, and they do not
\* change once the Dataset is constructed.
C8_StatisticsFromTrainOnly == []TrainRowsOnly /\ [][StatisticsKept]_vars

C8_Witness ==
    /\ pc = "dataset"
    /\ Len(ds.train_idx) = 2
    /\ Len(ds.val_idx) + Len(ds.test_idx) = 2
    /\ ds.X_train_std[1].sqrt_of # Rat(0, 1)
    /\ \E k \in 1..Len(ds.X) : (k - 1) \notin Range(ds.train_idx) /\ ds.X[k][1] = 2

\* the feature columns that come from cancer_type_one_hot.tsv
OneHotFeatures ==
    IF cfg.cancer_type = "all"
    THEN (ds.input_dimension - Len(files["cancer_type_one_hot"].cols) + 1)..ds.input_dimension
    ELSE {}

\* C9: at the position of every one-hot cancer type column the stored
\* statistics are mean 0 and std 1, so (X - mean)/std gives back the raw
\* value; every other input column has its train mean and std + eps.
C9_OneHotLeftAlone ==
    DatasetBuilt =>
        \A j \in 1..ds.input_dimension :
            LET column == Column(TakeRows(ds.X, ds.train_idx), j)
            IN  IF j \in OneHotFeatures
                THEN /\ ds.X_train_mean[j] = Rat(0, 1)
                     /\ ds.X_train_std[j] = [sqrt_of |-> Rat(1, 1), plus_eps |-> FALSE]
                     /\ \A k \in 1..Len(ds.X) :
                           Normalize(Rat(ds.X[k][j], 1), ds.X_train_mean[j],
                                     ds.X_train_std[j]) = Raw(ds.X[k][j])
                ELSE /\ ds.X_train_mean[j] = Rat(SumSeq(column), Len(column))
                     /\ ds.X_train_std[j] = [sqrt_of |-> Variance(column), plus_eps |-> TRUE]

C9_Witness ==
    /\ DatasetBuilt
    /\ cfg.cancer_type = "all"
    /\ OneHotFeatures # {}
    /\ \E j \in OneHotFeatures :
          LET column == Column(TakeRows(ds.X, ds.train_idx), j)
          IN  /\ Len(column) = 2
              /\ Mean(column) = Rat(1, 2)
              /\ ds.X_train_mean[j] = Rat(0, 1)

---------------------------------------------------------------------------
(* The metrics table of save_results_split *)

\* runs that vary the ground truths of two samples, the labels, the order
\* of the samples and of the genes, and the splits
ReportData ==
    {[DefaultData EXCEPT !["gex"] =
        [i \in Samples |-> IF i \in DOMAIN v THEN v[i] ELSE DefaultData["gex"][i]]] :
        v \in [1..2 -> [1..2 -> Values]]}
ReportLabels ==
    {DefaultLabels, StringDefaultLabels, [i \in Samples |-> "A"],
     [i \in Samples |-> IF i % 2 = 0 THEN "A" ELSE "B"]}
ReportInputs ==
    {ResultsRun(DefaultCfg, World(DefaultGeneCols, AllSamples, d, l),
                DatasetWithSampleIds(s, g, d, i), 0) :
        d \in ReportData, l \in ReportLabels,
        s \in {<<1, 2, 3, 4>>, <<3, 1, 4, 2>>},
        g \in {<<"g1", "g2">>, <<"g2", "g1">>},
        i \in {Idx(<<0, 1>>, <<2>>, <<3>>), Idx(<<3>>, <<0, 1>>, <<2>>)}}

InitReport == InitOf(BaseInputs \cup ReportInputs)

SpecReport == InitReport /\ [][Next]_vars

MetricsWritten(split) == results[split].evaluation_metrics # <<>>

\* the samples of a split, and the label cancer_type.tsv gives a sample
SamplesOfSplit(split) == {ds.sample_ids[i + 1] : i \in Range(SplitIdx(split))}
Labelled == SampleIds(files["cancer_type"])
LabelOf(id) == RowOf(files["cancer_type"], id).vals[1]
LabelsOfSplit(split) == {LabelOf(id) : id \in SamplesOfSplit(split) \cap Labelled}
MembersOf(split, label) ==
    IF label = "all" THEN SamplesOfSplit(split)
    ELSE {id \in SamplesOfSplit(split) \cap Labelled : LabelOf(id) = label}

\* the ground truths and the model's outputs of one sample, gene columns
\* in sorted order
PositionOf(id) == CHOOSE k \in 1..Len(ds.sample_ids) : ds.sample_ids[k] = id
TruthsOf(id) ==
    [k \in 1..Len(cfg.entrezgene_ids) |->
       ds.y[PositionOf(id)][SortedPositions(cfg.entrezgene_ids)[k]]]
OutputsOf(id) ==
    [k \in 1..Len(cfg.entrezgene_ids) |->
       PredictedValue([of |-> ResultsPrediction(model.params, ds.X[PositionOf(id)]),
                       column |-> SortedPositions(cfg.entrezgene_ids)[k]])]
SquaredErrorsOf(id) ==
    [k \in 1..Len(cfg.entrezgene_ids) |->
       (TruthsOf(id)[k] - OutputsOf(id)[k]) * (TruthsOf(id)[k] - OutputsOf(id)[k])]

RECURSIVE SumOver(_, _)
SumOver(ids, part) ==
    IF ids = {} THEN 0
    ELSE LET id == CHOOSE x \in ids : TRUE
         IN  part[id] + SumOver(ids \ {id}, part)

ExpectedMse(members) ==
    Rat(SumOver(members, [id \in members |-> SumSeq(SquaredErrorsOf(id))]),
        Cardinality(members) * Len(cfg.entrezgene_ids))

RECURSIVE TruthsInOrder(_)
TruthsInOrder(ids) ==
    IF Len(ids) = 0 THEN <<>> ELSE TruthsOf(ids[1]) \o TruthsInOrder(Tail(ids))

RowFor(split, label) ==
    CHOOSE r \in Range(results[split].evaluation_metrics) : r.cancer_type = label

\* C11: the metrics table of every evaluated split has exactly one row for
\* each cancer type label found among the samples of the split and exactly
\* one row "all"; the row of a label is computed from exactly the samples of
\* the split with that label, the row "all" from every sample of the split,
\* and its mse is the mean of the squared errors over those samples
C11_MetricsTableGroups ==
    \A split \in {"val", "test"} :
        MetricsWritten(split) =>
            LET table == results[split].evaluation_metrics
                labels == LabelsOfSplit(split) \cup {"all"}
            IN  /\ {table[k].cancer_type : k \in 1..Len(table)} = labels
                /\ Len(table) = Cardinality(LabelsOfSplit(split)) + 1
                /\ \A k \in 1..Len(table) :
                      LET members == MembersOf(split, table[k].cancer_type)
                      IN  /\ table[k].ground_truths = TruthsInOrder(SetToSortedSeq(members))
                          /\ Len(table[k].predictions) = Len(table[k].ground_truths)
                          /\ table[k].all_mse = ExpectedMse(members)

\* a validation split of one sample of type A predicted exactly and one of
\* type B with one of its two values off by one: the row "all" has mse 1/4
C11_Witness ==
    /\ MetricsWritten("val")
    /\ Len(results["val"].evaluation_metrics) = 3
    /\ Len(RowFor("val", "all").ground_truths) = 4
    /\ RowFor("val", "A").all_mse = Rat(0, 1)
    /\ RowFor("val", "B").all_mse = Rat(1, 2)
    /\ RowFor("val", "all").all_mse = Rat(1, 4)

====
